---- MODULE Spec2Model ----
(***************************************************************************)
(* dino: the per-host script worker pool (dino-server/src/engine.rs), the  *)
(* swappable pool handle (dino-server/src/worker_pool.rs), the request     *)
(* handler (dino-server/src/lib.rs) and the reload loop                    *)
(* (dino/src/cli/run.rs), as one state machine.                            *)
(***************************************************************************)
EXTENDS Integers, Sequences, FiniteSets, TLC

(* ------------------------------ bounds --------------------------------- *)

\* requests the server receives in one behaviour
MaxReqs == 3
\* requests it receives in the behaviours of SpecSwaps and SpecReload
SwapReqs == 1
\* reloads one swapping task performs in one behaviour
MaxReloads == 1
\* the `size` handed to SwappableWorkerPool::try_new (10 in the CLI)
PoolSize == 2
\* number of values of the usize dispatch counter (2^64 on the real target)
UsizeRange == 16

\* JsWorker::run calls made on the worker under test
MaxCalls == 2
\* edits made to the project's files in one behaviour
MaxEdits == 2
\* longest Host header, in characters
MaxHostLen == 3

\* longest key of an import map, in characters
MaxKeyLen == 2

\* longest specifier handed to load_import, in tokens
MaxSpecLen == 3

\* capacity of a worker's request channel, mpsc::channel(1)
ChanCap == 1

Reqs == 1..MaxReqs
Workers == 0..(PoolSize - 1)
\* the tasks that call swap on the host's handles: the file watcher of the
\* CLI and one more holder of a clone of the handles
Swappers == {"watch", "other"}
\* inners ever built for the host: the initial one and those of the reloads
Builds == 1..(1 + MaxReloads * Cardinality(Swappers))

\* module sources a build can produce; "bad" does not evaluate
Codes == {"v1", "v2", "bad"}
\* handler names a route can name
Names == {"hello", "boom"}

\* characters of a Host header: a letter and the port separator
Chars == {"a", ":"}
\* the Host header values a request can carry, as character sequences
HostHeaders == UNION {[1..n -> Chars] : n \in 1..MaxHostLen}
\* the host the CLI registers its router and its pool under ("localhost")
LocalHost == <<"a">>
NoHost == <<>>
\* the requests whose Host header and path are drawn freely: a pair, so that
\* the lookups of two headers can be compared
HostReqs == {1, 2}
\* keys of AppState.routers and of AppState.worker_pools
RouterHosts == {LocalHost}
PoolHosts == {LocalHost}
\* request paths: one that the routes of every build match and one that
\* none matches
Paths == {"/hello", "/nope"}

\* contents of main.ts: two versions that bundle and one that does not parse
TsSrc == {"v1", "v2", "broken"}
\* contents of a .js module that main.ts imports
JsSrc == {"j1", "j2"}
\* contents of config.yml: two route tables and one that is not valid
CfgSrc == {"c1", "c2", "invalid"}
\* the files the watcher reloads on (run.rs:72)
Watched == {"ts", "js", "cfg"}
NoBundle == [main |-> "none", lib |-> "none"]
NoArtifact == [mjs |-> NoBundle, yml |-> "none"]

\* the fields of Req (engine.rs:25-38), in declaration order
ReqKeys == {"method", "url", "query", "params", "headers", "body"}
\* the Req values handed to JsWorker::run; maps are written as their JSON
\* text, body is an Option<String>
ReqValues ==
    [method : {"GET", "POST"}, url : {"/a", "/b"}, query : {"{}", "{x:1}"},
     params : {"{}", "{id:7}"}, headers : {"{}", "{h:1}"},
     body : {"None", "text"}]
NoReq ==
    [method |-> "none", url |-> "none", query |-> "none", params |-> "none",
     headers |-> "none", body |-> "none"]

NoInner == [code |-> "none", pool |-> 0]
NoRouter == [code |-> "none", build |-> 0]

VARIABLES
    routerPub,  \* SwappableAppRouter: the published router inner
    poolPub,    \* SwappableWorkerPool.inner: the published WorkerPoolInner
    lastStore,  \* history: the inner handed to the most recent store
    nbuilds,    \* builds started so far
    sw,         \* per swapper: position in the reload and its locals
    built,      \* JsWorkerPool p exists (its threads were spawned)
    indexes,    \* JsWorkerPool.indexes of pool p
    calls,      \* history: fetch_add steps taken on pool p
    wpc,        \* worker thread (p, w): init / recv / run / dead (panicked)
    wcode,      \* the `code` string moved into worker thread (p, w)
    chan,       \* buffer of the channel of worker (p, w)
    running,    \* requests worker (p, w) is executing
    sent,       \* history: requests whose send on (p, w) completed, in order
    started,    \* history: requests worker (p, w) took, in order
    req,        \* per request: position in handler() and its locals
    reply,      \* per request: state of its oneshot reply channel
    delivered,  \* history: per reply channel, whose results were sent on it
    files,      \* the project directory: contents of its source files
    buildDir,   \* ./build: the artifacts stored under each project hash
    watch,      \* the async_watch task: its position, result and log
    globals,    \* global scope of the script context of one JsWorker
    jsReq,      \* the Req of the last JsWorker::run call on that worker
    jsRes,      \* the Res that call returned
    importMap,  \* ImportMap.map of the bundler's import map
    looked,     \* the last ImportMap::lookup call: its specifier and result
    cacheDir,   \* CACHE_DIR: the cache files of the URL loader, by file name
    lastLoad,   \* the last load_import call: its inputs and what it returned
    moduleMap,  \* ModuleMap: its main entry and its index
    esModules,  \* the EsModule nodes of a dependency tree, by node
    seen_modules, \* the module status cache handed to fast_forward
    visits      \* history: what the last fast_forward call did, node by node

\* the project on disk and the watcher task
fsVars == <<files, buildDir, watch>>
\* the script context of the worker under test
jsVars == <<globals, jsReq, jsRes>>
\* the bundler: its import map and its module loaders
bundleVars == <<importMap, looked, cacheDir, lastLoad>>
\* the bundler's module map and its dependency tree
graphVars == <<moduleMap, esModules, seen_modules, visits>>

vars == <<routerPub, poolPub, lastStore, nbuilds, sw, built, indexes, calls,
          wpc, wcode, chan, running, sent, started, req, reply, delivered,
          fsVars, jsVars, bundleVars, graphVars>>

(* --------------------------- the script side --------------------------- *)

\* the object the module evaluates to: the handlers it exports
Exports(code) ==
    CASE code = "v1" -> {"hello", "boom"}
      [] code = "v2" -> {"hello"}
      [] OTHER -> {}

\* JsWorker::try_new: Ok iff ctx.eval(module) yields the handlers object
JsWorker_try_new(code) == code \in {"v1", "v2"}

\* JsWorker::run: handlers.get::<Function>(name)?, fun.call((req,))?,
\* v.finish()?.  "hello" resolves to a Res whose body is the version of the
\* code; "boom" throws.
JsWorker_run(code, name) ==
    IF name \in Exports(code) /\ name = "hello"
    THEN [ok |-> TRUE, body |-> code]
    ELSE [ok |-> FALSE, body |-> "none"]

(* ----------------------------- host lookup ----------------------------- *)

\* str::find(':'): the 0-based index of the first ':', -1 for None
StrFind(h) ==
    IF \E i \in 1..Len(h) : h[i] = ":"
    THEN (CHOOSE i \in 1..Len(h) :
              h[i] = ":" /\ \A j \in 1..(i - 1) : h[j] # ":") - 1
    ELSE -1

\* host.split_off(at): what is left in `host`, its first `at` characters
SplitOffKeep(h, at) == SubSeq(h, 1, at)

\* get_router_by_host: _ = host.split_off(host.find(':').unwrap_or(host.len()))
RouterKeyWhole(h) == h
RouterKey(h) ==
    SplitOffKeep(h, IF StrFind(h) = -1 THEN Len(h) ELSE StrFind(h))

\* get_worker_pool_by_host: the same statement on its own copy of the host
PoolKey(h) ==
    SplitOffKeep(h, IF StrFind(h) = -1 THEN Len(h) ELSE StrFind(h))

\* state.routers.get(&host) is Some
RouterFoundAny(key) == TRUE
RouterFound(key) == key \in RouterHosts

\* state.worker_pools.get(&host) is Some
PoolFound(key) == key \in PoolHosts

\* router.match_it(method, path): the routes compiled from the config of
\* every build of the model are the same, GET /hello
match_it(router, path) == path = "/hello"

(* ------------------------------ the build ------------------------------ *)

\* contents a file of the project can have
SrcOf(f) == CASE f = "ts" -> TsSrc [] f = "js" -> JsSrc [] f = "cfg" -> CfgSrc

\* calc_project_hash: BLAKE3 over the files matching ts, fs and json, so of
\* the model's files over main.ts alone (the hash is taken as injective)
calc_project_hash(fs) == <<fs.ts>>

\* run_bundle("main.ts", ..): the entry and what it imports in one module
run_bundle(fs) == [main |-> fs.ts, lib |-> fs.js]
\* run_bundle fails when the entry does not parse
Bundles(fs) == fs.ts # "broken"

\* the hashes a project of the model can have
Hashes == {calc_project_hash(fs) : fs \in [ts : TsSrc, js : JsSrc, cfg : CfgSrc]}

\* what the filesystem does to the writes of one build_project call: all of
\* them succeed, fs::write fails after it created the .mjs, File::create of the
\* .yml fails, or File::open("config.yml") or io::copy fails
BuildOutcomes == {"ok", "write_fail", "create_fail", "copy_fail"}
\* a .mjs that holds less than the bundle
PartialBundle == [main |-> "partial", lib |-> "partial"]

\* build_project: the artifact of the project's hash is reused when its .mjs
\* exists; otherwise the bundle is written and config.yml is copied next to
\* it, and an error of one of these steps returns with what was written so far
build_project_io(fs, dir, io) ==
    LET hash == calc_project_hash(fs) IN
    IF dir[hash] # NoArtifact
    THEN [ok |-> TRUE, hash |-> hash, dir |-> dir]
    ELSE IF ~Bundles(fs)
    THEN [ok |-> FALSE, hash |-> hash, dir |-> dir]
    ELSE IF io = "write_fail"
    THEN [ok |-> FALSE, hash |-> hash,
          dir |-> [dir EXCEPT ![hash] = [mjs |-> PartialBundle, yml |-> "none"]]]
    ELSE IF io = "create_fail"
    THEN [ok |-> FALSE, hash |-> hash,
          dir |-> [dir EXCEPT ![hash] = [mjs |-> run_bundle(fs), yml |-> "none"]]]
    ELSE IF io = "copy_fail"
    THEN [ok |-> FALSE, hash |-> hash,
          dir |-> [dir EXCEPT ![hash] = [mjs |-> run_bundle(fs), yml |-> "partial"]]]
    ELSE [ok |-> TRUE, hash |-> hash,
          dir |-> [dir EXCEPT ![hash] = [mjs |-> run_bundle(fs), yml |-> fs.cfg]]]

\* build_project on a filesystem whose writes succeed
build_project(fs, dir) == build_project_io(fs, dir, "ok")

\* ProjectConfig::load of a stored .yml
ProjectConfig_load(yml) == [ok |-> yml \notin {"invalid", "none"}, routes |-> yml]

\* get_code_and_config: build_project(".")?, read_to_string(filename)?,
\* ProjectConfig::load(config)?
get_code_and_config(fs, dir) ==
    LET b == build_project(fs, dir)
        art == b.dir[b.hash] IN
    IF ~b.ok
    THEN [ok |-> FALSE, code |-> NoBundle, routes |-> "none", dir |-> b.dir]
    ELSE IF ~ProjectConfig_load(art.yml).ok
    THEN [ok |-> FALSE, code |-> NoBundle, routes |-> "none", dir |-> b.dir]
    ELSE [ok |-> TRUE, code |-> art.mjs,
          routes |-> ProjectConfig_load(art.yml).routes, dir |-> b.dir]

(* -------------------------- one script context ------------------------ *)

\* `globals` holds the own enumerable properties of the context's global
\* object; the engine's built-ins are not enumerable and are left out.

\* JsWorker::try_new: global.set("handlers", ret), global.set("print", fun)
GlobalsAfterTryNew == ("handlers" :> "object of functions") @@ ("print" :> "function")

\* IntoJs of one field: String and HashMap become their value, Some(s)
\* becomes s and None becomes undefined
FieldIntoJs(v) == IF v = "None" THEN "undefined" ELSE v

\* the derived Req::into_js: let obj = ctx.globals(); one obj.set per field;
\* Ok(obj.into()): the properties of the object the handler is called with
Req_into_js(g, q) ==
    [k \in DOMAIN g \cup ReqKeys |->
        IF k \in ReqKeys THEN FieldIntoJs(q[k]) ELSE g[k]]

\* JSON.stringify of a property value: functions and undefined are left
\* out, an object whose members are functions is written as {}
JsonOmits(v) == v \in {"function", "undefined"}
JsonOf(v) == IF v = "object of functions" THEN "{}" ELSE v

\* JSON.stringify(obj) followed by a JSON decode: the members of the text
JSON_stringify(obj) ==
    [k \in {k \in DOMAIN obj : ~JsonOmits(obj[k])} |-> JsonOf(obj[k])]

(* --------------------------- the import map ---------------------------- *)

\* characters of the keys and of the specifiers looked up: a letter and the
\* dot; they hold no path separator, so each is a path of one component
ImChars == {"a", "."}
ImportKeys == UNION {[1..n -> ImChars] : n \in 1..MaxKeyLen}
ImportSpecifiers == UNION {[1..n -> ImChars] : n \in 1..(MaxKeyLen + 1)}
\* targets of the entries: a plain one and one that begins with "./"
ImportTargets == {<<"x">>, <<".", "/", "y">>}
\* numbers of entries of the "imports" objects parsed
MapSizes == {1, 2, 3}
\* the "imports" objects: the HashMap<String, String> read from the JSON text
ImportsJson ==
    UNION {[K -> ImportTargets] :
             K \in {K \in SUBSET ImportKeys : Cardinality(K) \in MapSizes}}
\* env::current_dir()
Cwd == <<"/", "w">>
\* Option<String>
NoneStr == [some |-> FALSE, val |-> <<>>]
SomeStr(v) == [some |-> TRUE, val |-> v]

\* the byte of a character, which String's Ord compares
Byte(c) ==
    CASE c = "." -> 46
      [] c = "/" -> 47
      [] c = "a" -> 97
      [] c = "w" -> 119
      [] c = "x" -> 120
      [] c = "y" -> 121

\* a < b in the order of String::cmp: lexicographic by bytes
StrLess(a, b) ==
    \E i \in 1..Len(b) :
        /\ i <= Len(a) + 1
        /\ \A j \in 1..(i - 1) : a[j] = b[j]
        /\ IF i = Len(a) + 1 THEN TRUE ELSE Byte(a[i]) < Byte(b[i])

\* str::starts_with
StartsWith(str, pre) ==
    Len(pre) <= Len(str) /\ SubSeq(str, 1, Len(pre)) = pre

\* map.sort_by(|a, b| b.0.cmp(&a.0)) on the entries with the keys K: the
\* keys of a HashMap differ, so the order they come in does not show
RECURSIVE SortedKeys(_)
SortedKeys(K) ==
    IF K = {} THEN <<>>
    ELSE LET k == CHOOSE k \in K : \A j \in K : ~StrLess(k, j) IN
         <<k>> \o SortedKeys(K \ {k})

\* ImportMap::parse_from_json of a text whose "imports" is the object m
ImportMap_parse_from_json(m) ==
    LET ks == SortedKeys(DOMAIN m) IN
    [i \in 1..Len(ks) |-> [key |-> ks[i], target |-> m[ks[i]]]]

\* Path::file_name of a path of one component: None for "", "." and ".."
HasFileName(path) == path \notin {<<>>, <<".">>, <<".", ".">>}

\* position of the last dot of a file name, 0 when it has none
LastDot(f) ==
    LET D == {i \in 1..Len(f) : f[i] = "."} IN
    IF D = {} THEN 0 ELSE CHOOSE i \in D : \A j \in D : j <= i

\* Path::file_stem: the name up to its last dot, the whole name when the
\* only dot is its first character or it has none
FileStem(f) ==
    IF LastDot(f) <= 1 THEN f ELSE SubSeq(f, 1, LastDot(f) - 1)

\* Path::extension
PathExtension(path) ==
    IF HasFileName(path) /\ LastDot(path) > 1
    THEN SomeStr(SubSeq(path, LastDot(path) + 1, Len(path)))
    ELSE NoneStr

\* Path::with_extension: unchanged when the path has no file name; an empty
\* extension removes the present one
PathWithExtension(path, ext) ==
    IF ~HasFileName(path) THEN path
    ELSE FileStem(path) \o (IF ext = <<>> THEN <<>> ELSE <<".">> \o ext)

\* self.map.iter().find(|(k, _)| specifier.starts_with(k)): the index of the
\* first entry whose key the specifier starts with, 0 when there is none
FindEntryLast(map, specifier) ==
    LET M == {i \in 1..Len(map) : StartsWith(specifier, map[i].key)} IN
    IF M = {} THEN 0 ELSE CHOOSE i \in M : \A j \in M : j <= i
FindEntry(map, specifier) ==
    LET M == {i \in 1..Len(map) : StartsWith(specifier, map[i].key)} IN
    IF M = {} THEN 0 ELSE CHOOSE i \in M : \A j \in M : i <= j

\* target.replacen('.', &cwd, 1) when the target starts with "./"
EffectiveTarget(target) ==
    IF StartsWith(target, <<".", "/">>) THEN Cwd \o Tail(target) ELSE target

\* specifier.replacen(&base, &target, 1): base is at the start of specifier
Replacen(specifier, base, target) ==
    target \o SubSeq(specifier, Len(base) + 1, Len(specifier))

\* ImportMap::lookup
ImportMap_lookup(map, specifier) ==
    LET i == FindEntry(map, specifier) IN
    IF i = 0 THEN NoneStr
    ELSE LET base == map[i].key
             target == EffectiveTarget(map[i].target)
             ext == PathExtension(specifier) IN
         IF ext.some /\ specifier = PathWithExtension(base, ext.val)
         THEN NoneStr
         ELSE SomeStr(Replacen(specifier, base, target))

(* -------------------------- the module loaders ------------------------- *)

\* what a specifier handed to load_import is made of: a letter, the colon,
\* the backslash, the slash and the suffix ".ts"
LoadToks == {"c", ":", "\\", "/", ".ts"}
LoadSpecifiers == UNION {[1..n -> LoadToks] : n \in 1..MaxSpecLen}
\* three URLs, one of them of a TypeScript module
UrlSpecs == {<<"c", ":", ".ts">>, <<"c", ":", "/">>, <<"c", ":", "c">>}
\* static EXTENSIONS
EXTENSIONS == <<"js", "jsx", "ts", "tsx", "json", "wasm">>
\* what Path::is_file answers during one FsModuleLoader::load: for the path
\* itself, for the path with each extension and for <path>/index.<ext>, and
\* whether TypeScript::compile accepts the source; the files that exist are
\* .js and .ts files
FsViews ==
    [self : BOOLEAN, exts : SUBSET {"js", "ts"}, index : SUBSET {"js", "ts"},
     compiles : BOOLEAN]
\* a directory without any of these files
NoFiles == [self |-> FALSE, exts |-> {}, index |-> {}, compiles |-> TRUE]
\* what the environment does to one UrlModuleLoader::load: the first step
\* that fails, or the body that the GET returns
NetOutcomes == {"dir_fail", "get_fail", "compile_fail", "write_fail", "v1", "v2"}
\* ModuleSource: the text and whether it went through TypeScript::compile
NoSource == [text |-> <<>>, compiled |-> FALSE]
NoLoad ==
    [specifier |-> <<>>, skip |-> FALSE, loader |-> "none", status |-> "none",
     readExt |-> "none", issued |-> FALSE, source |-> NoSource]

\* WINDOWS_REGEX.is_match: ^[a-zA-Z]:\\
WINDOWS_REGEX_is_match(s) ==
    Len(s) >= 3 /\ s[1] = "c" /\ s[2] = ":" /\ s[3] = "\\"

\* the tokens a URL scheme goes on with after its first letter
SchemeToks == {"c", ".ts"}

\* position of the first token that is not part of a scheme, 0 if none
SchemeEnd(s) ==
    LET E == {i \in 1..Len(s) : s[i] \notin SchemeToks} IN
    IF E = {} THEN 0 ELSE CHOOSE i \in E : \A j \in E : i <= j

\* the authority of a URL whose scheme ends at position e and is followed
\* by "//": the tokens up to the next slash
UrlAuthority(s, e) ==
    LET S == {i \in (e + 3)..Len(s) : s[i] = "/"}
        stop == IF S = {} THEN Len(s) + 1 ELSE CHOOSE i \in S : \A j \in S : i <= j IN
    SubSeq(s, e + 3, stop - 1)

\* Url::parse(specifier).is_ok(): a scheme that starts with a letter and ends
\* at a colon; none of the schemes is a special one, so what follows is an
\* authority after "//" (a host without backslash, and after its colon an
\* empty port) and else a path, which always parses
Url_parse_is_ok(s) ==
    LET e == SchemeEnd(s) IN
    /\ e >= 2
    /\ s[1] = "c"
    /\ s[e] = ":"
    /\ IF Len(s) >= e + 2 /\ s[e + 1] = "/" /\ s[e + 2] = "/"
       THEN LET a == UrlAuthority(s, e)
                C == {i \in 1..Len(a) : a[i] = ":"} IN
            /\ \A i \in 1..Len(a) : a[i] # "\\"
            /\ C # {} => (C = {Len(a)} /\ Len(a) > 1)
       ELSE TRUE

\* load_import's match: the loader chosen for a specifier
LoaderForWindowsFs(s) ==
    IF WINDOWS_REGEX_is_match(s) THEN "fs"
    ELSE IF Url_parse_is_ok(s) THEN "url" ELSE "fs"
LoaderFor(s) ==
    LET m == <<WINDOWS_REGEX_is_match(s), Url_parse_is_ok(s)>> IN
    IF m[2] THEN "url" ELSE "fs"

\* the path without its trailing slashes
RECURSIVE TrimSlashes(_)
TrimSlashes(path) ==
    IF path # <<>> /\ path[Len(path)] = "/"
    THEN TrimSlashes(SubSeq(path, 1, Len(path) - 1)) ELSE path

\* Path::file_name: the last component, <<>> when the path has none
LoadFileName(path) ==
    LET t == TrimSlashes(path)
        S == {i \in 1..Len(t) : t[i] = "/"}
        last == IF S = {} THEN 0 ELSE CHOOSE i \in S : \A j \in S : j <= i IN
    SubSeq(t, last + 1, Len(t))

\* Path::extension of a specifier: "ts", another one, or none; the dot of a
\* name that starts with its only dot opens no extension
LoadExtension(path) ==
    LET f == LoadFileName(path)
        D == {i \in 1..Len(f) : f[i] = ".ts"}
        last == IF D = {} THEN 0 ELSE CHOOSE i \in D : \A j \in D : j <= i IN
    IF last <= 1 THEN "none"
    ELSE IF last = Len(f) THEN "ts" ELSE "other"

\* the first extension of EXTENSIONS that is in the set E, "none" if none is
FirstExtension(E) ==
    LET I == {i \in 1..Len(EXTENSIONS) : EXTENSIONS[i] \in E} IN
    IF I = {} THEN "none" ELSE EXTENSIONS[CHOOSE i \in I : \A j \in I : i <= j]

\* load_as_file(path).or_else(|_| load_as_directory(path)): the extension of
\* the file whose source is read, "missing" when no file is found
FsFileRead(path, view) ==
    IF view.self THEN LoadExtension(path)
    ELSE IF /\ LoadExtension(path) = "none"
            /\ LoadFileName(path) # <<>>
            /\ FirstExtension(view.exts) # "none"
         THEN FirstExtension(view.exts)
    ELSE IF FirstExtension(view.index) # "none"
         THEN FirstExtension(view.index)
    ELSE "missing"

\* TypeScript::compile
TypeScript_compile(src) == [src EXCEPT !.compiled = TRUE]

\* FsModuleLoader::load: the source is compiled when the specifier, with
\* "js" for a missing extension, ends in ts; a specifier without a file
\* name keeps no extension and path.extension().unwrap() panics
FsModuleLoader_load(path, view) ==
    LET read == FsFileRead(path, view)
        path_extension == IF LoadExtension(path) = "none" THEN "js"
                          ELSE LoadExtension(path)
        src == [text |-> <<"file", read>>, compiled |-> FALSE] IN
    IF read = "missing"
    THEN [status |-> "not_found", readExt |-> "none", source |-> NoSource]
    ELSE IF LoadExtension(path) = "none" /\ LoadFileName(path) = <<>>
    THEN [status |-> "panicked", readExt |-> read, source |-> NoSource]
    ELSE IF path_extension = "ts" /\ ~view.compiles
    THEN [status |-> "compile_failed", readExt |-> read, source |-> NoSource]
    ELSE [status |-> "ok", readExt |-> read,
          source |-> IF path_extension = "ts" THEN TypeScript_compile(src) ELSE src]

\* Sha1::default().digest(specifier.as_bytes()).to_hex(): the name of the
\* cache file of a URL; different URLs have different digests
Sha1Hex(s) == <<"sha1">> \o s

\* str::ends_with(".ts")
EndsWithTs(s) == s # <<>> /\ s[Len(s)] = ".ts"

\* fs::write(&module_path, &source)
CacheWriteNone(dir, h, source) == dir
CacheWrite(dir, h, source) == (h :> source) @@ dir

\* UrlModuleLoader::load: what it returns and the cache directory it leaves
UrlModuleLoader_load(s, skip, dir, net) ==
    LET h == Sha1Hex(s)
        body == [text |-> <<IF net = "v2" THEN "v2" ELSE "v1">>, compiled |-> FALSE]
        source == IF EndsWithTs(s) THEN TypeScript_compile(body) ELSE body
        fail(st, get) == [status |-> st, issued |-> get, source |-> NoSource,
                          dir |-> dir] IN
    IF net = "dir_fail" THEN fail("dir_failed", FALSE)
    ELSE IF ~skip /\ h \in DOMAIN dir
    THEN [status |-> "ok", issued |-> FALSE, source |-> dir[h], dir |-> dir]
    ELSE IF net = "get_fail" THEN fail("not_found", TRUE)
    ELSE IF EndsWithTs(s) /\ net = "compile_fail" THEN fail("compile_failed", TRUE)
    ELSE IF net = "write_fail" THEN fail("write_failed", TRUE)
    ELSE [status |-> "ok", issued |-> TRUE, source |-> source,
          dir |-> CacheWrite(dir, h, source)]

(* ------------------------------ the pool ------------------------------- *)

\* fetch_add(1, Relaxed) on the AtomicUsize: the new counter value
NextIndexesStuck(c) == c
NextIndexesSaturating(c) == IF c + 1 = UsizeRange THEN c ELSE c + 1
NextIndexes(c) == (c + 1) % UsizeRange

\* index % self.senders.len()
WorkerIndexZero(c) == 0
WorkerIndex(c) == c % PoolSize

\* the pool whose senders WorkerPoolInner::run uses: self.pool
RunTargetLive(snap) == poolPub.pool
RunTarget(snap) == snap.pool

\* the bounded channel: a send completes when the buffer has a free slot
SendReadyAlways(q) == TRUE
SendReady(q) == Len(q) < ChanCap
\* rx.blocking_recv(): the oldest buffered message is taken out
ChanRecvItem(q) == Head(q)
ChanRecvRestPeek(q) == q
ChanRecvRest(q) == Tail(q)

\* the res_tx that the thread takes out of the message together with the
\* request r: the sender of the reply channel JsWorkerPool::run created for r
ReplyChanFirst(r) == 1
ReplyChan(r) == r

\* res_tx.send(res): Ok when the receiver is still there, Err(res) when the
\* caller has dropped it; `let _ =` ignores which
OneshotSendAnyway(st) == "sent"
OneshotSend(st) == IF st = "rx_dropped" THEN "discarded" ELSE "sent"

\* the thread is at rx.blocking_recv(), or on its way to its first one
\* through a JsWorker::try_new that succeeds
AtRecv(p, w) ==
    \/ wpc[p][w] = "recv"
    \/ wpc[p][w] = "init" /\ JsWorker_try_new(wcode[p][w])
CanRecvAlways(p, w) == AtRecv(p, w) \/ wpc[p][w] = "run"
CanRecv(p, w) == AtRecv(p, w)

\* WorkerPoolInner::new
WorkerPoolInner_newKeepPool(code, pool) == [code |-> code, pool |-> poolPub.pool]
WorkerPoolInner_new(code, pool) == [code |-> code, pool |-> pool]

\* ArcSwap::store: the pointer after the store
ArcSwap_storeNewest(cur, new) == IF new.pool > cur.pool THEN new ELSE cur
ArcSwap_store(cur, new) == new

\* ArcSwap::load_full
ArcSwap_load == poolPub

\* a request task holds its WorkerPool snapshot from load() until handler()
\* returns or unwinds
HoldsSnapshot(r) == req[r].pc \in {"loaded", "picked", "sent"}

\* the Arc<WorkerPoolInner> of pool p has no owner left: the JsWorkerPool was
\* dropped and with it its senders
Freed(p) ==
    /\ built[p]
    /\ poolPub.pool # p
    /\ \A s \in Swappers : ~(sw[s].pc = "built" /\ sw[s].build = p)
    /\ \A r \in Reqs : ~(HoldsSnapshot(r) /\ req[r].snap.pool = p)

\* rx.blocking_recv() returns None: every sender is dropped and the buffer
\* is empty; the loop ends and the thread returns.  Nothing else can happen
\* to such a thread, so its return is not a step of its own.
ExitedNever(p, w) == FALSE
Exited(p, w) == AtRecv(p, w) /\ chan[p][w] = <<>> /\ Freed(p)

\* the thread of worker (p, w) has ended, by a panic or by returning
Terminated(p, w) == wpc[p][w] = "dead" \/ Exited(p, w)

(* ---------------------------- the module map --------------------------- *)

MaxModules == 2

\* the v8::Global<v8::Module> handles that can be inserted
V8Modules == 1..MaxModules

\* module paths: files, and one path that starts with "http"
MapPaths == {<<"a">>, <<"w">>, <<"h", "t">>, <<"h", "t", "t", "p", "a">>}

\* ModuleMap::new
ModuleMap_new == [main |-> NoneStr, index |-> <<>>]

\* ModuleMap::insert(path, module), metadata_ok being fs::metadata(path).is_ok():
\* HashMap::insert puts module under path whether or not the key is present
ModuleMap_insert(map, path, module, metadata_ok) ==
    [main |-> IF ~map.main.some
                 /\ (metadata_ok \/ StartsWith(path, <<"h", "t", "t", "p">>))
              THEN SomeStr(path)
              ELSE map.main,
     index |-> [p \in DOMAIN map.index \cup {path} |->
                  IF p = path THEN module ELSE map.index[p]]]

(* -------------------------- the dependency tree ------------------------ *)

MaxNodes == 3

\* the EsModule nodes of one tree, and the paths they can have
Nodes == 1..MaxNodes
ModPaths == {"p", "q"}
\* ModuleStatus
ModuleStatus == {"Resolving", "Duplicate", "Ready"}

\* EsModule.dependencies of node n: Rc handles to other nodes; the handles
\* form no cycle, so the nodes are numbered with every handle going to a
\* later node, and every list in the order of the numbers
DepLists(n) ==
    {d \in UNION {[1..k -> (n + 1)..MaxNodes] : k \in 0..(MaxNodes - n)} :
        \A i, j \in DOMAIN d : i < j => d[i] < d[j]}

\* the dependency lists of the nodes n..MaxNodes, one after the other
RECURSIVE DepsFrom(_)
DepsFrom(n) ==
    IF n > MaxNodes THEN {<<>>}
    ELSE {<<d>> \o rest : d \in DepLists(n), rest \in DepsFrom(n + 1)}

\* the status caches a traversal can be handed: a path is absent, or recorded
\* as Resolving or as Ready
SeenMaps ==
    UNION {[P -> {"Resolving", "Ready"}] : P \in SUBSET ModPaths}

\* seen_modules.insert(path, status)
SeenInsert(seen, path, status) ==
    [q \in DOMAIN seen \cup {path} |-> IF q = path THEN status ELSE seen[q]]

\* the duplicate branch: seen_modules.get(&self.path).unwrap() == Ready
DuplicateReadyAny(seen, path) == TRUE
DuplicateReady(seen, path) == seen[path] = "Ready"

\* self.status = Ready; seen_modules.insert(self.path.clone(), self.status)
MarkReady(st, m) ==
    [st EXCEPT !.mods[m].status = "Ready",
               !.seen = SeenInsert(st.seen, st.mods[m].path, "Ready")]

\* one line of the history of a traversal: the node, its status and the cache
\* when fast_forward was entered on it, and its status, the statuses of its
\* dependencies and whether the call panicked when it was left
Visit(m, entry, exit, panicked) ==
    [node |-> m, before |-> entry.mods[m].status, seen |-> entry.seen,
     after |-> exit.mods[m].status,
     deps |-> [i \in DOMAIN exit.mods[m].dependencies |->
                 exit.mods[exit.mods[m].dependencies[i]].status],
     panicked |-> panicked]

\* EsModule::fast_forward on node m in the traversal state st: the nodes, the
\* cache, the history and whether an unwrap has panicked, after which nothing
\* more of the traversal runs
RECURSIVE fast_forward(_, _)
RECURSIVE fast_forward_deps(_, _)
fast_forward_deps(deps, st) ==
    IF deps = <<>> \/ st.panicked THEN st
    ELSE fast_forward_deps(Tail(deps), fast_forward(Head(deps), st))

fast_forward(m, st) ==
    LET self == st.mods[m]
        Done(exit, panicked) ==
            [exit EXCEPT !.log = Append(@, Visit(m, st, exit, panicked)),
                         !.panicked = panicked] IN
    IF self.status = "Ready" THEN Done(st, FALSE)
    ELSE IF self.status = "Duplicate"
    THEN IF self.path \notin DOMAIN st.seen THEN Done(st, TRUE)
         ELSE IF DuplicateReady(st.seen, self.path)
         THEN Done([st EXCEPT !.mods[m].status = "Ready"], FALSE)
         ELSE Done(st, FALSE)
    ELSE LET st1 == fast_forward_deps(self.dependencies, st) IN
         IF st1.panicked THEN st1
         ELSE IF self.dependencies = <<>> THEN Done(MarkReady(st1, m), FALSE)
         ELSE IF \A i \in DOMAIN self.dependencies :
                    st1.mods[self.dependencies[i]].status = "Ready"
         THEN Done(MarkReady(st1, m), FALSE)
         ELSE Done(st1, FALSE)

(* -------------------------------- Init --------------------------------- *)

NewReq ==
    [pc |-> "new", host |-> NoHost, path |-> "none", name |-> "none",
     rSnap |-> NoRouter, snap |-> NoInner,
     ticket |-> 0, k |-> 0, widx |-> 0, late |-> FALSE, across |-> FALSE,
     body |-> "none"]

\* handler() has returned or unwound: its locals are gone; what stays is the
\* outcome and, as history, the handler name, the pool snapshot it used,
\* whether its send completed after that pool was swapped out (late) and
\* whether it ended after that pool was swapped out (across)
Finished(q, outcome, body) ==
    [NewReq EXCEPT !.pc = outcome, !.host = q.host, !.path = q.path,
                   !.name = q.name, !.snap = q.snap,
                   !.late = q.late, !.across = (poolPub.pool # q.snap.pool),
                   !.body = body]

\* RunOpts::execute: the first build is published by try_new on both handles
\* before the server starts; its workers are warm
Init ==
    /\ routerPub = [code |-> "v1", build |-> 1]
    /\ poolPub = [code |-> "v1", pool |-> 1]
    /\ lastStore = [code |-> "v1", pool |-> 1]
    /\ nbuilds = 1
    /\ sw = [s \in Swappers |-> [pc |-> "idle", code |-> "none", build |-> 0, done |-> 0]]
    /\ built = [p \in Builds |-> p = 1]
    /\ indexes = [p \in Builds |-> 0]
    /\ calls = [p \in Builds |-> 0]
    /\ wpc = [p \in Builds |-> [w \in Workers |-> IF p = 1 THEN "recv" ELSE "none"]]
    /\ wcode = [p \in Builds |-> [w \in Workers |-> IF p = 1 THEN "v1" ELSE "none"]]
    /\ chan = [p \in Builds |-> [w \in Workers |-> <<>>]]
    /\ running = [p \in Builds |-> [w \in Workers |-> {}]]
    /\ sent = [p \in Builds |-> [w \in Workers |-> <<>>]]
    /\ started = [p \in Builds |-> [w \in Workers |-> <<>>]]
    /\ req = [r \in Reqs |-> NewReq]
    /\ reply = [r \in Reqs |-> "none"]
    /\ delivered = [r \in Reqs |-> <<>>]
    /\ files = [ts |-> "v1", js |-> "j1", cfg |-> "c1"]
    /\ buildDir = [h \in Hashes |->
                     IF h = calc_project_hash(files)
                     THEN [mjs |-> run_bundle(files), yml |-> files.cfg]
                     ELSE NoArtifact]
    /\ watch = [pc |-> "running", pending |-> FALSE, edits |-> 0, warns |-> 0,
                failures |-> 0,
                code |-> run_bundle(files), routes |-> files.cfg]
    /\ globals = GlobalsAfterTryNew
    /\ jsReq = NoReq
    /\ jsRes = [calls |-> 0, status |-> 0, body |-> <<>>]
    /\ importMap = <<>>
    /\ looked = [specifier |-> <<>>, res |-> NoneStr]
    /\ cacheDir = <<>>
    /\ lastLoad = NoLoad
    /\ moduleMap = ModuleMap_new
    /\ esModules = <<>>
    /\ seen_modules = <<>>
    /\ visits = <<>>

(* ------------------------------ handler() ------------------------------ *)

\* handler() up to assemble_req for a request with Host header h and path:
\* get_router_by_host(host.clone(), ..)? and router.match_it(..)? each return
\* early with their error
Lookup(r, h, path) ==
    /\ req[r].pc = "new"
    /\ IF r = 1 THEN TRUE ELSE req[r - 1].pc # "new"
    /\ LET q == [req[r] EXCEPT !.host = h, !.path = path] IN
        req' = [req EXCEPT ![r] =
                  IF ~RouterFound(RouterKey(h))
                  THEN Finished(q, "host_not_found", "none")
                  ELSE IF ~match_it(routerPub, path)
                  THEN Finished(q, "route_not_found", "none")
                  ELSE [q EXCEPT !.pc = "routed", !.rSnap = routerPub]]
    /\ UNCHANGED <<routerPub, poolPub, lastStore, nbuilds, sw, built, indexes,
                   calls, wpc, wcode, chan, running, sent, started, reply>>
    /\ UNCHANGED <<delivered, fsVars, jsVars, bundleVars, graphVars>>

\* get_router_by_host(..).load(), match_it, assemble_req of a request to the
\* registered host on a path that has a route: the router snapshot is taken
\* and a route of it is matched
Route(r) ==
    /\ req[r].pc = "new"
    /\ IF r = 1 THEN TRUE ELSE req[r - 1].pc # "new"
    /\ req' = [req EXCEPT ![r].pc = "routed", ![r].rSnap = routerPub,
                          ![r].host = LocalHost, ![r].path = "/hello"]
    /\ UNCHANGED <<routerPub, poolPub, lastStore, nbuilds, sw, built, indexes,
                   calls, wpc, wcode, chan, running, sent, started, reply>>
    /\ UNCHANGED <<delivered, fsVars, jsVars, bundleVars, graphVars>>

\* get_worker_pool_by_host(..).load()
LoadPool(r) ==
    /\ req[r].pc = "routed"
    /\ req' = [req EXCEPT ![r] =
                  IF PoolFound(PoolKey(req[r].host))
                  THEN [@ EXCEPT !.pc = "loaded", !.snap = ArcSwap_load]
                  ELSE Finished(@, "host_not_found", "none")]
    /\ UNCHANGED <<routerPub, poolPub, lastStore, nbuilds, sw, built, indexes,
                   calls, wpc, wcode, chan, running, sent, started, reply>>
    /\ UNCHANGED <<delivered, fsVars, jsVars, bundleVars, graphVars>>

\* worker_pool.run(handler, req) down to JsWorkerPool::run(name, req), up to
\* the send: n is the handler name of the matched route; the counter is
\* fetched and incremented in one atomic step and the reply channel is created
FetchAdd(r, n) ==
    /\ req[r].pc = "loaded"
    /\ LET p == RunTarget(req[r].snap) IN
        /\ req' = [req EXCEPT ![r].pc = "picked",
                              ![r].name = n,
                              ![r].ticket = indexes[p],
                              ![r].k = calls[p],
                              ![r].widx = WorkerIndex(indexes[p])]
        /\ indexes' = [indexes EXCEPT ![p] = NextIndexes(indexes[p])]
        /\ calls' = [calls EXCEPT ![p] = calls[p] + 1]
    /\ reply' = [reply EXCEPT ![r] = "pending"]
    /\ UNCHANGED <<routerPub, poolPub, lastStore, nbuilds, sw, built,
                   wpc, wcode, chan, running, sent, started>>
    /\ UNCHANGED <<delivered, fsVars, jsVars, bundleVars, graphVars>>

\* sender.send(..).await completes: the message is in the worker's buffer
Send(r) ==
    /\ req[r].pc = "picked"
    /\ LET p == RunTarget(req[r].snap)
           w == req[r].widx IN
        /\ ~Terminated(p, w)
        /\ SendReady(chan[p][w])
        /\ chan' = [chan EXCEPT ![p][w] = Append(@, r)]
        /\ sent' = [sent EXCEPT ![p][w] = Append(@, r)]
        /\ req' = [req EXCEPT ![r].pc = "sent",
                              ![r].late = (poolPub.pool # req[r].snap.pool)]
    /\ UNCHANGED <<routerPub, poolPub, lastStore, nbuilds, sw, built, indexes,
                   calls, wpc, wcode, running, started, reply>>
    /\ UNCHANGED <<delivered, fsVars, jsVars, bundleVars, graphVars>>

\* sender.send(..).await returns Err because the receiver is gone, and
\* .unwrap() panics: the task unwinds, its reply channel is dropped
SendPanic(r) ==
    /\ req[r].pc = "picked"
    /\ LET p == RunTarget(req[r].snap)
           w == req[r].widx IN
        Terminated(p, w)
    /\ req' = [req EXCEPT ![r] = Finished(@, "panicked", "none")]
    /\ reply' = [reply EXCEPT ![r] = "dropped"]
    /\ UNCHANGED <<routerPub, poolPub, lastStore, nbuilds, sw, built, indexes,
                   calls, wpc, wcode, chan, running, sent, started>>
    /\ UNCHANGED <<delivered, fsVars, jsVars, bundleVars, graphVars>>

\* a caller of JsWorkerPool::run drops the oneshot::Receiver it was returned
\* before a reply has arrived
Cancel(r) ==
    /\ req[r].pc = "sent"
    /\ reply[r] = "pending"
    /\ reply' = [reply EXCEPT ![r] = "rx_dropped"]
    /\ req' = [req EXCEPT ![r] = Finished(@, "cancelled", "none")]
    /\ UNCHANGED <<routerPub, poolPub, lastStore, nbuilds, sw, built, indexes,
                   calls, wpc, wcode, chan, running, sent, started>>
    /\ UNCHANGED <<delivered, fsVars, jsVars, bundleVars, graphVars>>

(* --------------------------- the worker thread ------------------------- *)

\* the requests that lose their reply sender when worker (p, w) panics: the
\* one it runs and those in the buffer of its dropped receiver
Orphans(p, w) == running[p][w] \cup {chan[p][w][i] : i \in 1..Len(chan[p][w])}

\* rx.recv() of a caller whose sender was dropped returns Err: `?` in
\* WorkerPoolInner::run
Orphaned(rq, rp, lost) ==
    /\ req' = [r \in Reqs |-> IF r \in lost /\ rq[r].pc = "sent"
                              THEN Finished(rq[r], "recv_err", "none") ELSE rq[r]]
    /\ reply' = [r \in Reqs |-> IF r \in lost /\ rp[r] = "pending"
                                THEN "dropped" ELSE rp[r]]

\* JsWorker::try_new(&code).unwrap() at the top of the thread fails: the
\* thread panics before its first blocking_recv and its receiver is dropped
WorkerInitPanic(p, w) ==
    /\ wpc[p][w] = "init"
    /\ ~JsWorker_try_new(wcode[p][w])
    /\ wpc' = [wpc EXCEPT ![p][w] = "dead"]
    /\ chan' = [chan EXCEPT ![p][w] = <<>>]
    /\ Orphaned(req, reply, Orphans(p, w))
    /\ UNCHANGED <<routerPub, poolPub, lastStore, nbuilds, sw, built, indexes,
                   calls, wcode, running, sent, started>>
    /\ UNCHANGED <<delivered, fsVars, jsVars, bundleVars, graphVars>>

\* rx.blocking_recv() returns Some(..)
WorkerRecv(p, w) ==
    /\ CanRecv(p, w)
    /\ chan[p][w] # <<>>
    /\ LET r == ChanRecvItem(chan[p][w]) IN
        /\ running' = [running EXCEPT ![p][w] = @ \cup {r}]
        /\ started' = [started EXCEPT ![p][w] = Append(@, r)]
    /\ chan' = [chan EXCEPT ![p][w] = ChanRecvRest(@)]
    /\ wpc' = [wpc EXCEPT ![p][w] = "run"]
    /\ UNCHANGED <<routerPub, poolPub, lastStore, nbuilds, sw, built, indexes,
                   calls, wcode, sent, req, reply>>
    /\ UNCHANGED <<delivered, fsVars, jsVars, bundleVars, graphVars>>

\* worker.run(&name, req).unwrap(); let _ = res_tx.send(res);
WorkerRun(p, w) ==
    /\ wpc[p][w] = "run"
    /\ \E r \in running[p][w] :
        LET res == JsWorker_run(wcode[p][w], req[r].name)
            c == ReplyChan(r) IN
        IF res.ok
        THEN /\ running' = [running EXCEPT ![p][w] = @ \ {r}]
             /\ wpc' = [wpc EXCEPT ![p][w] = IF running'[p][w] = {} THEN "recv" ELSE "run"]
             /\ reply' = [reply EXCEPT ![c] = OneshotSend(@)]
             /\ IF reply[c] = "rx_dropped"
                THEN UNCHANGED <<req, delivered>>
                ELSE /\ req' = [req EXCEPT ![c] = Finished(@, "replied", res.body)]
                     /\ delivered' = [delivered EXCEPT ![c] = Append(@, r)]
             /\ UNCHANGED chan
        ELSE /\ running' = [running EXCEPT ![p][w] = {}]
             /\ wpc' = [wpc EXCEPT ![p][w] = "dead"]
             /\ chan' = [chan EXCEPT ![p][w] = <<>>]
             /\ Orphaned(req, reply, Orphans(p, w))
             /\ UNCHANGED delivered
    /\ UNCHANGED <<routerPub, poolPub, lastStore, nbuilds, sw, built, indexes,
                   calls, wcode, sent, started>>
    /\ UNCHANGED <<fsVars, jsVars, bundleVars, graphVars>>

(* ------------------------------ the reload ----------------------------- *)

\* router.swap(code.clone(), config.routes) by task s with the code c of a
\* new build
RouterSwap(s, c) ==
    /\ sw[s].pc = "idle"
    /\ sw[s].done < MaxReloads
    /\ nbuilds' = nbuilds + 1
    /\ sw' = [sw EXCEPT ![s] = [pc |-> "router_swapped", code |-> c,
                                build |-> nbuilds + 1, done |-> @.done + 1]]
    /\ routerPub' = [code |-> c, build |-> nbuilds + 1]
    /\ UNCHANGED <<poolPub, lastStore, built, indexes, calls, wpc, wcode, chan,
                   running, sent, started, req, reply>>
    /\ UNCHANGED <<delivered, jsVars, bundleVars, graphVars>>

\* async_watch: get_code_and_config() returned the code of a new build and
\* router.swap(code.clone(), config.routes) published its router
Reload(s, c) ==
    /\ RouterSwap(s, c)
    /\ UNCHANGED fsVars

\* a file of the project is saved with new contents; the debouncer hands the
\* change to the channel async_watch reads
Edit(f, v) ==
    /\ watch.edits < MaxEdits
    /\ files[f] # v
    /\ files' = [files EXCEPT ![f] = v]
    /\ watch' = [watch EXCEPT !.edits = @ + 1,
                              !.pending = (watch.pc = "running")]
    /\ UNCHANGED <<routerPub, poolPub, lastStore, nbuilds, sw, built, indexes,
                   calls, wpc, wcode, chan, running, sent, started, req, reply>>
    /\ UNCHANGED <<delivered, buildDir, jsVars, bundleVars, graphVars>>

\* async_watch, Ok(events) with need_swap: get_code_and_config()? succeeds
\* and router.swap publishes; pool.swap follows (PoolBuild, PoolStore)
WatchReload ==
    /\ watch.pc = "running"
    /\ watch.pending
    /\ LET g == get_code_and_config(files, buildDir) IN
        /\ g.ok
        /\ RouterSwap("watch", g.code.main)
        /\ buildDir' = g.dir
        /\ watch' = [watch EXCEPT !.pending = FALSE, !.code = g.code,
                                  !.routes = g.routes]
    /\ UNCHANGED files

\* `?` on an Err inside the while loop of async_watch: the function returns,
\* which drops stream and debouncer; failures is the history of such returns
WatchGoesOn(w) == [w EXCEPT !.pending = FALSE, !.failures = @ + 1]
WatchAfterError(w) ==
    [w EXCEPT !.pc = "ended", !.pending = FALSE, !.failures = @ + 1]

\* async_watch, Ok(events) with need_swap: get_code_and_config()? returns the
\* error out of async_watch; the spawned task ends and nobody reads its result
WatchReloadFail ==
    /\ watch.pc = "running"
    /\ watch.pending
    /\ sw["watch"].pc = "idle"
    /\ LET g == get_code_and_config(files, buildDir) IN
        /\ ~g.ok
        /\ buildDir' = g.dir
    /\ watch' = WatchAfterError(watch)
    /\ UNCHANGED <<routerPub, poolPub, lastStore, nbuilds, sw, built, indexes,
                   calls, wpc, wcode, chan, running, sent, started, req, reply>>
    /\ UNCHANGED <<delivered, files, jsVars, bundleVars, graphVars>>

\* async_watch, Ok(events) with need_swap: get_code_and_config()? succeeds
\* and router.swap(code.clone(), config.routes)? returns an error, for a route
\* table the router cannot be built from: no inner is published, pool.swap is
\* not reached, and the error leaves async_watch
WatchSwapFail ==
    /\ watch.pc = "running"
    /\ watch.pending
    /\ sw["watch"].pc = "idle"
    /\ LET g == get_code_and_config(files, buildDir) IN
        /\ g.ok
        /\ buildDir' = g.dir
    /\ watch' = WatchAfterError(watch)
    /\ UNCHANGED <<routerPub, poolPub, lastStore, nbuilds, sw, built, indexes,
                   calls, wpc, wcode, chan, running, sent, started, req, reply>>
    /\ UNCHANGED <<delivered, files, jsVars, bundleVars, graphVars>>

\* async_watch, Err(e): warn!("Error: {:?}", e) and the loop goes on
WatchError ==
    /\ watch.pc = "running"
    /\ watch.warns < MaxEdits
    /\ watch' = [watch EXCEPT !.warns = @ + 1]
    /\ UNCHANGED <<routerPub, poolPub, lastStore, nbuilds, sw, built, indexes,
                   calls, wpc, wcode, chan, running, sent, started, req, reply>>
    /\ UNCHANGED <<delivered, files, buildDir, jsVars, bundleVars, graphVars>>

\* SwappableWorkerPool::swap, JsWorkerPool::new(self.size, &code): one channel
\* and one thread per worker, each thread with its own copy of the code
PoolBuild(s) ==
    /\ sw[s].pc = "router_swapped"
    /\ LET p == sw[s].build IN
        /\ built' = [built EXCEPT ![p] = TRUE]
        /\ wpc' = [wpc EXCEPT ![p] = [w \in Workers |-> "init"]]
        /\ wcode' = [wcode EXCEPT ![p] = [w \in Workers |-> sw[s].code]]
    /\ sw' = [sw EXCEPT ![s].pc = "built"]
    /\ UNCHANGED <<routerPub, poolPub, lastStore, nbuilds, indexes, calls, chan,
                   running, sent, started, req, reply>>
    /\ UNCHANGED <<delivered, fsVars, jsVars, bundleVars, graphVars>>

\* SwappableWorkerPool::swap: WorkerPoolInner::new(code, pool) and
\* self.inner.store(Arc::new(inner))
PoolStore(s) ==
    /\ sw[s].pc = "built"
    /\ LET inner == WorkerPoolInner_new(sw[s].code, sw[s].build) IN
        /\ poolPub' = ArcSwap_store(poolPub, inner)
        /\ lastStore' = inner
    /\ sw' = [sw EXCEPT ![s] = [@ EXCEPT !.pc = "idle", !.code = "none", !.build = 0]]
    /\ UNCHANGED <<routerPub, nbuilds, built, indexes, calls, wpc, wcode, chan,
                   running, sent, started, req, reply>>
    /\ UNCHANGED <<delivered, fsVars, jsVars, bundleVars, graphVars>>

\* the server: request tasks, worker threads and the file watcher's reloads
Steps(R) ==
    \/ \E r \in R : Route(r)
    \/ \E r \in R : LoadPool(r)
    \/ \E r \in R, n \in Names : FetchAdd(r, n)
    \/ \E r \in R : Send(r)
    \/ \E r \in R : SendPanic(r)
    \/ \E p \in Builds, w \in Workers : WorkerInitPanic(p, w)
    \/ \E p \in Builds, w \in Workers : WorkerRecv(p, w)
    \/ \E p \in Builds, w \in Workers : WorkerRun(p, w)
    \/ \E c \in Codes : Reload("watch", c)
    \/ \E s \in Swappers : PoolBuild(s)
    \/ \E s \in Swappers : PoolStore(s)

Next == Steps(Reqs)

Spec == Init /\ [][Next]_vars

\* the server with few requests, for what one request sees of a reload
NextReload == Steps(1..SwapReqs)

SpecReload == Init /\ [][NextReload]_vars

\* one pool that is never swapped: request tasks and its worker threads
NextPool ==
    \/ \E r \in Reqs : Route(r)
    \/ \E r \in Reqs : LoadPool(r)
    \/ \E r \in Reqs, n \in Names : FetchAdd(r, n)
    \/ \E r \in Reqs : Send(r)
    \/ \E r \in Reqs : SendPanic(r)
    \/ \E p \in Builds, w \in Workers : WorkerRecv(p, w)
    \/ \E p \in Builds, w \in Workers : WorkerRun(p, w)

SpecPool == Init /\ [][NextPool]_vars

\* the handles under swaps issued by two tasks at once; requests take their
\* snapshots and go no further
NextSwaps ==
    \/ \E r \in 1..SwapReqs : Route(r)
    \/ \E r \in 1..SwapReqs : LoadPool(r)
    \/ \E s \in Swappers, c \in Codes : Reload(s, c)
    \/ \E s \in Swappers : PoolBuild(s)
    \/ \E s \in Swappers : PoolStore(s)

SpecSwaps == Init /\ [][NextSwaps]_vars

\* a caller of JsWorkerPool::run that may drop the receiver it is returned,
\* on one pool that is never swapped; every request names the handler
\* "hello", which returns a Res
NextCancel ==
    \/ \E r \in Reqs : Route(r)
    \/ \E r \in Reqs : LoadPool(r)
    \/ \E r \in Reqs : FetchAdd(r, "hello")
    \/ \E r \in Reqs : Send(r)
    \/ \E r \in Reqs : Cancel(r)
    \/ \E p \in Builds, w \in Workers : WorkerRecv(p, w)
    \/ \E p \in Builds, w \in Workers : WorkerRun(p, w)

\* the worker threads are scheduled: while some thread can take a step, a
\* thread takes one
FairWorkers ==
    WF_vars(\E p \in Builds, w \in Workers : WorkerRecv(p, w) \/ WorkerRun(p, w))

SpecCancel == Init /\ [][NextCancel]_vars /\ FairWorkers

\* JsWorker::run("hello", q) on the module of tests::js_worker_should_work,
\* whose handler returns {status: 200, headers, body: JSON.stringify(req)}:
\* fun.call((req,)) converts q with into_js and calls the handler with it
JsRun(q) ==
    /\ jsRes.calls < MaxCalls
    /\ globals' = Req_into_js(globals, q)
    /\ jsReq' = q
    /\ jsRes' = [calls |-> jsRes.calls + 1, status |-> 200,
                 body |-> JSON_stringify(globals')]
    /\ UNCHANGED <<routerPub, poolPub, lastStore, nbuilds, sw, built, indexes,
                   calls, wpc, wcode, chan, running, sent, started, req, reply>>
    /\ UNCHANGED <<delivered, fsVars, bundleVars, graphVars>>

\* one JsWorker called with a sequence of requests
NextJs == \E q \in ReqValues : JsRun(q)

SpecJs == Init /\ [][NextJs]_vars

\* the project on disk, the watcher task and the handles it swaps
NextWatch ==
    \/ \E f \in Watched : \E v \in SrcOf(f) : Edit(f, v)
    \/ WatchReload
    \/ WatchReloadFail
    \/ WatchSwapFail
    \/ WatchError
    \/ PoolBuild("watch")
    \/ PoolStore("watch")
    \/ \E r \in 1..SwapReqs : Route(r)
    \/ \E r \in 1..SwapReqs : LoadPool(r)

SpecWatch == Init /\ [][NextWatch]_vars

\* requests with any Host header and path, up to their dispatch; GET /hello
\* is routed to the handler "hello"
NextHosts ==
    \/ \E r \in HostReqs, h \in HostHeaders, path \in Paths : Lookup(r, h, path)
    \/ \E r \in HostReqs : LoadPool(r)
    \/ \E r \in HostReqs : FetchAdd(r, "hello")
    \/ \E r \in HostReqs : Send(r)

SpecHosts == Init /\ [][NextHosts]_vars

\* the requests dispatched around the overflow of the counter
WrapReqs == {1, 2}

\* a dispatch on the published pool that was made and answered before the
\* requests the behaviour follows: JsWorkerPool::run's fetch_add
EarlierDispatch(p) ==
    /\ p = poolPub.pool
    /\ \A r \in Reqs : req[r].pc = "new"
    /\ calls[p] <= UsizeRange
    /\ indexes' = [indexes EXCEPT ![p] = NextIndexes(indexes[p])]
    /\ calls' = [calls EXCEPT ![p] = calls[p] + 1]
    /\ UNCHANGED <<routerPub, poolPub, lastStore, nbuilds, sw, built,
                   wpc, wcode, chan, running, sent, started, req, reply>>
    /\ UNCHANGED <<delivered, fsVars, jsVars, bundleVars, graphVars>>

\* one pool after a long uptime: its counter has any value, and two requests
\* are dispatched
NextWrap ==
    \/ \E p \in Builds : EarlierDispatch(p)
    \/ \E r \in WrapReqs : Route(r)
    \/ \E r \in WrapReqs : LoadPool(r)
    \/ \E r \in WrapReqs : FetchAdd(r, "hello")
    \/ \E r \in WrapReqs : Send(r)
    \/ \E p \in Builds, w \in Workers : WorkerRecv(p, w)
    \/ \E p \in Builds, w \in Workers : WorkerRun(p, w)

SpecWrap == Init /\ [][NextWrap]_vars

\* one pool that is never swapped, whose handlers all return a Res
NextDispatch ==
    \/ \E r \in Reqs : Route(r)
    \/ \E r \in Reqs : LoadPool(r)
    \/ \E r \in Reqs : FetchAdd(r, "hello")
    \/ \E r \in Reqs : Send(r)
    \/ \E p \in Builds, w \in Workers : WorkerRecv(p, w)
    \/ \E p \in Builds, w \in Workers : WorkerRun(p, w)

\* the runtime wakes a task suspended in send(..).await when a slot of the
\* channel is free: while some send can complete, one does
FairSends == WF_vars(\E r \in Reqs : Send(r))

SpecDispatch == Init /\ [][NextDispatch]_vars /\ FairWorkers /\ FairSends

\* the requests in flight around a reload
RetireReqs == {1, 2}

\* the server under reloads of code that evaluates, with handlers that return
\* a Res and callers that may drop their receiver
NextRetire ==
    \/ \E r \in RetireReqs : Route(r)
    \/ \E r \in RetireReqs : LoadPool(r)
    \/ \E r \in RetireReqs : FetchAdd(r, "hello")
    \/ \E r \in RetireReqs : Send(r)
    \/ \E r \in RetireReqs : Cancel(r)
    \/ \E p \in Builds, w \in Workers : WorkerRecv(p, w)
    \/ \E p \in Builds, w \in Workers : WorkerRun(p, w)
    \/ Reload("watch", "v2")
    \/ PoolBuild("watch")
    \/ PoolStore("watch")

SpecRetire == Init /\ [][NextRetire]_vars /\ FairWorkers

\* the bundler reads its import map: ImportMap::parse_from_json
ParseImportMap(m) ==
    /\ importMap = <<>>
    /\ importMap' = ImportMap_parse_from_json(m)
    /\ UNCHANGED <<routerPub, poolPub, lastStore, nbuilds, sw, built, indexes,
                   calls, wpc, wcode, chan, running, sent, started, req, reply>>
    /\ UNCHANGED <<delivered, fsVars, jsVars, looked, cacheDir, lastLoad,
                   graphVars>>

\* resolve_import: map.lookup(specifier)
LookupImport(specifier) ==
    /\ importMap # <<>>
    /\ looked' = [specifier |-> specifier,
                  res |-> ImportMap_lookup(importMap, specifier)]
    /\ UNCHANGED <<routerPub, poolPub, lastStore, nbuilds, sw, built, indexes,
                   calls, wpc, wcode, chan, running, sent, started, req, reply>>
    /\ UNCHANGED <<delivered, fsVars, jsVars, importMap, cacheDir, lastLoad,
                   graphVars>>

\* load_import(specifier, skip_cache) in an environment that answers the
\* filesystem loader with view and the URL loader with net; create_dir_all
\* cannot fail on a cache directory that holds files
LoadImport(s, skip, view, net) ==
    /\ view.self => (s[Len(s)] # "/")
    /\ net = "dir_fail" => DOMAIN cacheDir = {}
    /\ IF LoaderFor(s) = "url"
       THEN LET u == UrlModuleLoader_load(s, skip, cacheDir, net) IN
            /\ lastLoad' = [specifier |-> s, skip |-> skip, loader |-> "url",
                            status |-> u.status, readExt |-> "none",
                            issued |-> u.issued, source |-> u.source]
            /\ cacheDir' = u.dir
       ELSE LET f == FsModuleLoader_load(s, view) IN
            /\ lastLoad' = [specifier |-> s, skip |-> skip, loader |-> "fs",
                            status |-> f.status, readExt |-> f.readExt,
                            issued |-> FALSE, source |-> f.source]
            /\ UNCHANGED cacheDir
    /\ UNCHANGED <<routerPub, poolPub, lastStore, nbuilds, sw, built, indexes,
                   calls, wpc, wcode, chan, running, sent, started, req, reply>>
    /\ UNCHANGED <<delivered, fsVars, jsVars, importMap, looked, graphVars>>

\* the first import of a bundle run, on an empty cache directory: of any
\* specifier, with any files on disk, and with any outcome of the download
NextLoad ==
    /\ lastLoad = NoLoad
    /\ \/ \E s \in LoadSpecifiers, skip \in BOOLEAN, view \in FsViews :
            LoadImport(s, skip, view, "v1")
       \/ \E s \in LoadSpecifiers, skip \in BOOLEAN, net \in NetOutcomes :
            LoadImport(s, skip, NoFiles, net)

SpecLoad == Init /\ [][NextLoad]_vars

\* imports of three URLs, again and again
NextUrl ==
    \E s \in UrlSpecs, skip \in BOOLEAN, net \in NetOutcomes :
        LoadImport(s, skip, NoFiles, net)

SpecUrl == Init /\ [][NextUrl]_vars

\* an import map is parsed and a specifier is looked up in it
NextImportMap ==
    \/ /\ importMap = <<>>
       /\ \E m \in ImportsJson : ParseImportMap(m)
    \/ /\ importMap # <<>>
       /\ looked.specifier = <<>>
       /\ \E specifier \in ImportSpecifiers : LookupImport(specifier)

SpecImportMap == Init /\ [][NextImportMap]_vars

\* the clients of the loaded pool, and the dispatches after which no client
\* sends a further request
LoadedReqs == {1, 2, 3}
MaxTickets == 5

\* the client that got the reply to request r sends its next request: axum
\* calls handler() again, while the pool has drawn fewer than MaxTickets tickets
NextRequest(r) ==
    /\ req[r].pc = "replied"
    /\ calls[poolPub.pool] < MaxTickets
    /\ req' = [req EXCEPT ![r] = NewReq]
    /\ reply' = [reply EXCEPT ![r] = "none"]
    /\ UNCHANGED <<routerPub, poolPub, lastStore, nbuilds, sw, built, indexes,
                   calls, wpc, wcode, chan, running, sent, started>>
    /\ UNCHANGED <<delivered, fsVars, jsVars, bundleVars, graphVars>>

\* one pool under load: requests keep arriving while workers are busy
NextLoaded ==
    \/ \E r \in LoadedReqs : Route(r)
    \/ \E r \in LoadedReqs : LoadPool(r)
    \/ \E r \in LoadedReqs : FetchAdd(r, "hello")
    \/ \E r \in LoadedReqs : Send(r)
    \/ \E p \in Builds, w \in Workers : WorkerRecv(p, w)
    \/ \E p \in Builds, w \in Workers : WorkerRun(p, w)
    \/ \E r \in LoadedReqs : NextRequest(r)

SpecLoaded == Init /\ [][NextLoaded]_vars

\* build_project(".") of `dino build` or of get_code_and_config, on a
\* filesystem that answers its writes with io
BuildProject(io) ==
    /\ buildDir' = build_project_io(files, buildDir, io).dir
    /\ UNCHANGED <<routerPub, poolPub, lastStore, nbuilds, sw, built, indexes,
                   calls, wpc, wcode, chan, running, sent, started, req, reply>>
    /\ UNCHANGED <<delivered, files, watch, jsVars, bundleVars, graphVars>>

\* a file of the project is saved with new contents while nothing watches
Save(f, v) ==
    /\ files[f] # v
    /\ files' = [files EXCEPT ![f] = v]
    /\ UNCHANGED <<routerPub, poolPub, lastStore, nbuilds, sw, built, indexes,
                   calls, wpc, wcode, chan, running, sent, started, req, reply>>
    /\ UNCHANGED <<delivered, buildDir, watch, jsVars, bundleVars, graphVars>>

\* the project is edited and built, again and again
NextBuild ==
    \/ \E f \in Watched : \E v \in SrcOf(f) : Save(f, v)
    \/ \E io \in BuildOutcomes : BuildProject(io)

SpecBuild == Init /\ [][NextBuild]_vars

\* one ModuleMap::insert call of the bundle run
Insert(path, module, metadata_ok) ==
    /\ moduleMap' = ModuleMap_insert(moduleMap, path, module, metadata_ok)
    /\ UNCHANGED <<routerPub, poolPub, lastStore, nbuilds, sw, built, indexes,
                   calls, wpc, wcode, chan, running, sent, started, req, reply>>
    /\ UNCHANGED <<delivered, fsVars, jsVars, bundleVars, esModules,
                   seen_modules, visits>>

\* a bundle run inserts modules into its module map
NextModuleMap ==
    \E path \in MapPaths, module \in V8Modules, metadata_ok \in BOOLEAN :
        Insert(path, module, metadata_ok)

SpecModuleMap == Init /\ [][NextModuleMap]_vars

\* a dependency tree as the loader has built it, with any statuses, and the
\* status cache that goes with it
SetupTree(status, path, deps, seen) ==
    /\ esModules = <<>>
    /\ esModules' = [m \in Nodes |-> [path |-> path[m], status |-> status[m],
                                       dependencies |-> deps[m]]]
    /\ seen_modules' = seen
    /\ UNCHANGED <<routerPub, poolPub, lastStore, nbuilds, sw, built, indexes,
                   calls, wpc, wcode, chan, running, sent, started, req, reply>>
    /\ UNCHANGED <<delivered, fsVars, jsVars, bundleVars, moduleMap, visits>>

\* module.fast_forward(&mut seen_modules) on node m
FastForward(m) ==
    /\ esModules # <<>>
    /\ LET st == fast_forward(m, [mods |-> esModules, seen |-> seen_modules,
                                  log |-> <<>>, panicked |-> FALSE]) IN
        /\ esModules' = st.mods
        /\ seen_modules' = st.seen
        /\ visits' = st.log
    /\ UNCHANGED <<routerPub, poolPub, lastStore, nbuilds, sw, built, indexes,
                   calls, wpc, wcode, chan, running, sent, started, req, reply>>
    /\ UNCHANGED <<delivered, fsVars, jsVars, bundleVars, moduleMap>>

\* a tree whose first node is being resolved is set up, in any state a
\* traversal can find it in, and one of its nodes is fast-forwarded
NextTree ==
    \/ /\ esModules = <<>>
       /\ \E status \in {f \in [Nodes -> ModuleStatus] : f[1] = "Resolving"},
             path \in {f \in [Nodes -> ModPaths] : f[1] = "p"},
             deps \in DepsFrom(1), seen \in SeenMaps :
            SetupTree(status, path, deps, seen)
    \/ /\ esModules # <<>>
       /\ visits = <<>>
       /\ \E m \in Nodes : FastForward(m)

SpecTree == Init /\ [][NextTree]_vars

(* ------------------------------- claims -------------------------------- *)

Range(q) == {q[i] : i \in 1..Len(q)}
IsPrefix(a, b) == Len(a) <= Len(b) /\ \A i \in 1..Len(a) : a[i] = b[i]
Dispatching(r) == req[r].pc \in {"picked", "sent"}

\* C1: the k-th fetch-and-increment on a pool (k counted from 0 in the order
\* the steps take effect) selects worker k mod N and its message is put on
\* that worker's channel; the counter has advanced once per call, so calls
\* in progress on one pool hold different counter values.
C1_RoundRobin ==
    /\ \A p \in Builds : indexes[p] = calls[p] % UsizeRange
    /\ \A r \in Reqs : Dispatching(r) =>
            /\ req[r].widx = req[r].k % PoolSize
            /\ req[r].k < calls[req[r].snap.pool]
    /\ \A r1, r2 \in Reqs :
            (r1 # r2 /\ Dispatching(r1) /\ Dispatching(r2)
                /\ req[r1].snap.pool = req[r2].snap.pool)
            => req[r1].ticket # req[r2].ticket
    /\ \A p \in Builds, w \in Workers :
            \A r \in Range(chan[p][w]) \cup running[p][w] :
                req[r].snap.pool = p /\ req[r].k % PoolSize = w

\* C1 witness: calls overlap (two have drawn their index and not yet sent)
\* and the call after N earlier ones is back at worker 0
C1_Witness ==
    \E r1, r2 \in Reqs :
        /\ r1 # r2
        /\ req[r1].pc = "picked" /\ req[r2].pc = "picked"
        /\ req[r1].snap.pool = req[r2].snap.pool
        /\ req[r1].k = PoolSize /\ req[r1].widx = 0

\* C2: a request is queued and executed only on workers of the pool of the
\* snapshot its load() returned, whatever was stored since, and its reply is
\* the one the code of that snapshot produces.
C2_OldSnapshot ==
    /\ \A p \in Builds, w \in Workers :
          \A r \in Range(sent[p][w]) \cup Range(started[p][w]) \cup running[p][w] :
              req[r].snap.pool = p
    /\ \A r \in Reqs :
          req[r].pc = "replied" => req[r].body = req[r].snap.code

\* C2 witness: a request that took its snapshot of the "v1" inner, completed
\* its send after the handle was swapped, and was answered "v1" while the
\* handle publishes "v2"
C2_Witness ==
    \E r \in Reqs :
        /\ req[r].pc = "replied" /\ req[r].late
        /\ req[r].body = "v1" /\ poolPub.code = "v2"

\* C3: the published inner is always the one handed to the most recent
\* store, also when the swaps of two tasks overlap; load() returns it.
C3_LastStoreWins == poolPub = lastStore /\ ArcSwap_load = lastStore

\* C3 witness: two swaps overlapped, the pool built later was stored first
\* (a request loaded it) and the pool built earlier was stored last and is
\* the one published, both swaps having returned
C3_Witness ==
    /\ \A s \in Swappers : sw[s].pc = "idle" /\ sw[s].done = MaxReloads
    /\ \E r \in Reqs :
        /\ req[r].pc = "loaded"
        /\ req[r].snap.pool > poolPub.pool

CompleteInner(i) ==
    /\ i.pool \in Builds
    /\ built[i.pool]
    /\ \A w \in Workers : wcode[i.pool][w] = i.code

\* C4: the published inner and every snapshot a load() returned is complete:
\* its pool exists and its code is the source every worker of that pool was
\* created with.
C4_CompleteInner ==
    /\ CompleteInner(poolPub)
    /\ \A r \in Reqs : req[r].snap # NoInner => CompleteInner(req[r].snap)

\* C4 witness: a swap is between building its pool and its store while a
\* request holds a snapshot, and the swap's code differs from the
\* snapshot's
C4_Witness ==
    \E s \in Swappers, r \in Reqs :
        /\ sw[s].pc = "built"
        /\ req[r].pc = "loaded"
        /\ req[r].snap.code # sw[s].code

\* C5 (as claimed): a request that was in flight on a pool when that pool
\* was swapped out, and whose handler completes on that pool's code, never
\* ends without its reply.
C5_NoDroppedRequest ==
    \A r \in Reqs :
        (req[r].across /\ JsWorker_run(req[r].snap.code, req[r].name).ok)
        => req[r].pc \notin {"panicked", "recv_err"}

\* C6 (as claimed): every request that holds both snapshots holds the router
\* and the pool of one build.
C6_SameBuild ==
    \A r \in Reqs : HoldsSnapshot(r) => req[r].rSnap.build = req[r].snap.pool

\* C7: a worker executes at most one handler at a time, and of the requests
\* it has taken all but the last one have had their reply sent or discarded.
C7_OneAtATime ==
    \A p \in Builds, w \in Workers :
        /\ Cardinality(running[p][w]) <= 1
        /\ \A i \in 1..(Len(started[p][w]) - 1) :
              /\ reply[started[p][w][i]] # "pending"
              /\ started[p][w][i] \notin running[p][w]

\* C7 witness: a worker executes its second request while a third party's
\* message could only wait: the first one was answered before
C7_Witness ==
    \E p \in Builds, w \in Workers :
        /\ Len(started[p][w]) = 2
        /\ wpc[p][w] = "run"
        /\ reply[started[p][w][1]] = "sent"

\* C8: on every worker the requests started are, in order, a prefix of the
\* requests whose send completed, and while the thread lives the ones not
\* yet started are exactly the buffer, in send order.
C8_WorkerFifo ==
    \A p \in Builds, w \in Workers :
        /\ IsPrefix(started[p][w], sent[p][w])
        /\ wpc[p][w] # "dead" => sent[p][w] = started[p][w] \o chan[p][w]

\* C8 witness: a worker has taken two requests, the two whose sends on its
\* channel completed, in that order
C8_Witness ==
    \E p \in Builds, w \in Workers :
        /\ Len(started[p][w]) = 2
        /\ started[p][w] = sent[p][w]

\* C9 (as claimed): no worker thread of a pool that has not been freed has
\* terminated.
C9_WorkersLive ==
    \A p \in Builds, w \in Workers :
        (built[p] /\ ~Freed(p)) => ~Terminated(p, w)

\* C10 (as claimed): every request a worker took and is done with had a
\* message sent on its reply channel.
C10_AlwaysReplies ==
    \A p \in Builds, w \in Workers :
        \A r \in Range(started[p][w]) \ running[p][w] : reply[r] = "sent"

\* C11: a request has no reply channel before its JsWorkerPool::run call and
\* one pending channel while it is dispatched; at most one result is ever
\* sent on a channel and it is the result of the request the channel was
\* created for; a request is answered only through its own channel.
C11_OneReplyChannel ==
    /\ \A r \in Reqs :
        /\ req[r].pc \in {"new", "routed", "loaded"} => reply[r] = "none"
        /\ Dispatching(r) => reply[r] = "pending"
        /\ req[r].pc = "replied" => delivered[r] = <<r>>
    /\ \A c \in Reqs :
        /\ Len(delivered[c]) <= 1
        /\ \A i \in 1..Len(delivered[c]) : delivered[c][i] = c
        /\ reply[c] = "sent" <=> delivered[c] # <<>>

\* C11 witness: two requests were answered, each on its own channel, while a
\* third is still dispatched
C11_Witness ==
    \E r1, r2, r3 \in Reqs :
        /\ r1 # r2
        /\ delivered[r1] = <<r1>> /\ delivered[r2] = <<r2>>
        /\ Dispatching(r3)

\* worker (p, w) executes request r, whose caller has dropped the receiver,
\* and r's handler returns a Res
CancelledRunning(p, w, r) ==
    /\ r \in running[p][w]
    /\ reply[r] = "rx_dropped"
    /\ JsWorker_run(wcode[p][w], req[r].name).ok

\* a worker is still executing a request whose receiver was dropped
CancelledPending ==
    \E p \in Builds, w \in Workers, r \in Reqs : CancelledRunning(p, w, r)

\* a request waits in the buffer of a worker that was handed a request whose
\* receiver was dropped
WaitsBehindCancelled ==
    \E p \in Builds, w \in Workers :
        /\ chan[p][w] # <<>>
        /\ \E r \in Range(started[p][w]) : reply[r] \in {"rx_dropped", "discarded"}

\* C12: a worker that finishes a request whose receiver was dropped discards
\* the result, delivers nothing, stays alive at its blocking_recv with its
\* buffer untouched; it does finish that request, and the requests waiting in
\* its buffer are then taken.
C12_CancelDiscards ==
    /\ [][\A p \in Builds, w \in Workers : \A r \in Reqs :
            (CancelledRunning(p, w, r) /\ r \notin running'[p][w])
            => /\ reply'[r] = "discarded"
               /\ wpc'[p][w] = "recv"
               /\ chan'[p][w] = chan[p][w]
               /\ delivered' = delivered]_vars
    /\ []<>(~CancelledPending)
    /\ []<>(~WaitsBehindCancelled)

\* C12 witness: a worker discarded the result of a cancelled request and has
\* taken the next request from its channel
C12_Witness ==
    \E p \in Builds, w \in Workers :
        /\ Len(started[p][w]) = 2
        /\ reply[started[p][w][1]] = "discarded"
        /\ req[started[p][w][1]].pc = "cancelled"

\* C13 (as claimed): no dispatching task ends in a panic; a dispatch to a
\* closed channel comes back to the caller as an error value.
C13_SendFailedIsError ==
    \A r \in Reqs : req[r].pc # "panicked"

\* requests whose send on a channel of pool p completed
SentOn(p) == UNION {Range(sent[p][w]) : w \in Workers}

\* C16: when all M > N dispatches made on a pool have completed their sends,
\* every worker of the pool has received floor(M/N) or ceil(M/N) of them.
C16_Balanced ==
    \A p \in Builds :
        LET M == calls[p] IN
        (M > PoolSize /\ Cardinality(SentOn(p)) = M)
        => \A w \in Workers :
              Len(sent[p][w]) \in {M \div PoolSize,
                                   (M + PoolSize - 1) \div PoolSize}

\* C16 witness: more dispatches than workers were made on a pool and all of
\* them have completed their sends
C16_Witness ==
    \E p \in Builds :
        /\ calls[p] > PoolSize
        /\ Cardinality(SentOn(p)) = calls[p]

\* the Host header h without its port: what is in front of its first ':'
HostName(h) ==
    CHOOSE k \in {SubSeq(h, 1, n) : n \in 0..Len(h)} :
        /\ \A i \in 1..Len(k) : k[i] # ":"
        /\ Len(k) = Len(h) \/ h[Len(k) + 1] = ":"

\* request r was handed to JsWorkerPool::run
Dispatched(r) == reply[r] # "none"

\* C17: a request whose host without port has no router ends HostNotFound,
\* one whose path no route matches ends RouteNotFound; such a request has
\* no reply channel, no pool snapshot and is on no channel, and the counter
\* of every pool counts exactly the requests dispatched on it.
C17_NotFoundNoDispatch ==
    /\ \A r \in Reqs : req[r].host # NoHost =>
        /\ HostName(req[r].host) \notin RouterHosts
              => req[r].pc = "host_not_found"
        /\ (HostName(req[r].host) \in RouterHosts /\ req[r].path # "/hello")
              => req[r].pc = "route_not_found"
        /\ req[r].pc \in {"host_not_found", "route_not_found"}
              => /\ ~Dispatched(r)
                 /\ req[r].snap = NoInner
                 /\ \A p \in Builds, w \in Workers :
                        r \notin Range(sent[p][w]) \cup Range(chan[p][w])
    /\ \A p \in Builds :
        /\ calls[p] = Cardinality({r \in Reqs : Dispatched(r) /\ req[r].snap.pool = p})
        /\ indexes[p] = calls[p] % UsizeRange
        /\ SentOn(p) \subseteq {r \in Reqs : Dispatched(r)}

\* C17 witness: one request ended HostNotFound and one, sent to the
\* registered host with a port, ended RouteNotFound; no counter has moved
C17_Witness ==
    \E r1, r2 \in Reqs :
        /\ req[r1].pc = "host_not_found"
        /\ req[r2].pc = "route_not_found" /\ StrFind(req[r2].host) # -1
        /\ \A p \in Builds : indexes[p] = 0

\* C18: the router lookup and the pool lookup of every request use its Host
\* header without the first ':' and what follows it; two requests whose
\* hosts differ only in the port give both lookups the same key and find the
\* router, or not, alike.
C18_PortStripped ==
    /\ \A r \in Reqs : req[r].host # NoHost =>
        /\ RouterKey(req[r].host) = HostName(req[r].host)
        /\ PoolKey(req[r].host) = HostName(req[r].host)
    /\ \A r1, r2 \in Reqs :
        (req[r1].host # NoHost /\ req[r2].host # NoHost
            /\ HostName(req[r1].host) = HostName(req[r2].host))
        => /\ RouterKey(req[r1].host) = RouterKey(req[r2].host)
           /\ PoolKey(req[r1].host) = PoolKey(req[r2].host)
           /\ req[r1].pc = "host_not_found" <=> req[r2].pc = "host_not_found"

\* C18 witness: two requests whose hosts differ only in the port hold the
\* same router snapshot and the same pool snapshot
C18_Witness ==
    \E r1, r2 \in Reqs :
        /\ req[r1].host # req[r2].host
        /\ Len(req[r1].host) > 2
        /\ req[r1].pc = "loaded" /\ req[r2].pc = "loaded"
        /\ req[r1].rSnap = req[r2].rSnap /\ req[r1].snap = req[r2].snap

\* C14 (as claimed): the step in which a reload fails writes a log line.
C14_FailureLogged ==
    [][(watch.pc = "running" /\ watch'.pc = "ended")
       => watch'.warns > watch.warns]_vars

\* C15 (as claimed): when the watcher has handled every change, the code and
\* the routes it last handed to the swaps are those of the files on disk.
C15_ReloadCurrent ==
    (watch.pc = "running" /\ ~watch.pending)
    => /\ watch.code = run_bundle(files)
       /\ watch.routes = files.cfg
       /\ routerPub.code = files.ts

\* the JSON members a Req serialises to: its six fields, a missing body as
\* null
ReqJson(q) == [k \in ReqKeys |-> IF q[k] = "None" THEN "null" ELSE q[k]]

\* C19 (as claimed): the Res of the echo handler has status 200 and a body
\* that decodes to exactly the six members of the Req that was passed in.
C19_RoundTrip ==
    jsRes.calls > 0 => (jsRes.status = 200 /\ jsRes.body = ReqJson(jsReq))

\* C20 (as claimed): after any sequence of calls the global scope holds what
\* JsWorker::try_new put there and nothing else.
C20_ContextUnchanged == globals = GlobalsAfterTryNew

\* C21 (as claimed): the pool that load() returns was built from code that
\* evaluates, and each of its workers has finished JsWorker::try_new.
C21_PublishedWarm ==
    /\ JsWorker_try_new(poolPub.code)
    /\ \A w \in Workers : wpc[poolPub.pool][w] # "init"

\* the channel of the worker that request r selected has no free slot
SlotTaken(r) ==
    LET p == req[r].snap.pool
        w == req[r].widx IN
    Len(chan[p][w]) >= ChanCap

\* C23 (as claimed): a send completes only on a worker that is not executing
\* a handler.
C23_SendOnlyToIdle ==
    [][\A r \in Reqs :
        (req[r].pc = "picked" /\ req'[r].pc = "sent")
        => running[req[r].snap.pool][req[r].widx] = {}]_vars

\* C23 (amended): a send completes only when the buffer of the selected
\* worker's channel has a free slot, whether that worker is executing a
\* handler or not: a channel never holds more than ChanCap requests, so at
\* most ChanCap requests wait behind the one a worker executes, and a
\* dispatch that finds the buffer full stays suspended.
C23_SendWhenSlotFree ==
    /\ \A p \in Builds, w \in Workers : Len(chan[p][w]) <= ChanCap
    /\ \A r \in Reqs :
        (req[r].pc = "picked" /\ SlotTaken(r))
        => /\ ~ENABLED Send(r)
           /\ \A p \in Builds, w \in Workers : r \notin Range(chan[p][w])

\* C23 witness: a worker executes one request and the send of a second one
\* has completed into its buffer meanwhile
C23_Witness ==
    \E p \in Builds, w \in Workers : \E r \in Reqs :
        /\ running[p][w] # {}
        /\ chan[p][w] = <<r>>
        /\ req[r].pc = "sent" /\ req[r].snap.pool = p /\ req[r].widx = w

\* some worker of request r's pool other than the selected one is idle with
\* an empty channel
OtherWorkerIdle(r) ==
    \E w \in Workers :
        /\ w # req[r].widx
        /\ wpc[req[r].snap.pool][w] = "recv"
        /\ chan[req[r].snap.pool][w] = <<>>

\* C24: the worker a dispatch sends to is the counter value it drew modulo
\* the pool size, whatever the workers are doing; its send completes only
\* into that worker's channel and only when that channel has a free slot,
\* the request is held nowhere else in the meantime, and no dispatch stays
\* suspended once its slot has been freed.
C24_NoSkipNoQueue ==
    /\ [](\A r \in Reqs : Dispatching(r) =>
            /\ req[r].widx = req[r].ticket % PoolSize
            /\ req[r].pc = "picked" =>
                 \A p \in Builds, w \in Workers : r \notin Range(chan[p][w]))
    /\ [][\A r \in Reqs :
            (req[r].pc = "picked" /\ req'[r].pc = "sent")
            => /\ ~SlotTaken(r)
               /\ \A p \in Builds, w \in Workers :
                    chan'[p][w] =
                        IF p = req[r].snap.pool /\ w = req[r].ticket % PoolSize
                        THEN Append(chan[p][w], r) ELSE chan[p][w]]_vars
    /\ []<>(\A r \in Reqs : req[r].pc = "picked" => ~SlotTaken(r))
    /\ []<>(\A r \in Reqs : req[r].pc # "picked")

\* C24 witness: a dispatch waits for the slot of its worker while another
\* worker of the pool is idle
C24_Witness ==
    \E r \in Reqs :
        /\ req[r].pc = "picked"
        /\ SlotTaken(r)
        /\ OtherWorkerIdle(r)

\* C25: the counter value a dispatch draws is the number of earlier
\* dispatches on the pool modulo the width of the counter, the worker it
\* selects is that value modulo the pool size, a worker of the pool; a
\* dispatch is possible at every counter value.
C25_CounterWraps ==
    /\ \A p \in Builds : indexes[p] = calls[p] % UsizeRange
    /\ \A r \in Reqs :
        /\ Dispatching(r) =>
            /\ req[r].ticket = req[r].k % UsizeRange
            /\ req[r].widx = (req[r].k % UsizeRange) % PoolSize
            /\ req[r].widx \in Workers
        /\ req[r].pc = "loaded" => ENABLED FetchAdd(r, "hello")

\* C25 witness: one dispatch drew the largest counter value, the next one
\* drew 0 and was sent to worker 0
C25_Witness ==
    \E r1, r2 \in Reqs :
        /\ req[r1].pc = "sent" /\ req[r1].k = UsizeRange - 1
        /\ req[r2].pc = "sent" /\ req[r2].k = UsizeRange
        /\ req[r2].ticket = 0 /\ req[r2].widx = 0

\* C30: a worker thread that has returned has taken every request that was
\* sent to it and runs none; and the threads of a pool whose last owner is
\* gone do not run forever: each of them ends.
C30_OldPoolRetires ==
    /\ [](\A p \in Builds, w \in Workers :
            Exited(p, w) => (started[p][w] = sent[p][w] /\ running[p][w] = {}))
    /\ []<>(\A p \in Builds :
            Freed(p) => \A w \in Workers : Terminated(p, w))

\* C30 witness: a replaced pool is freed, and a thread of it that had a
\* request in its channel when the caller gave up has taken it and returned
C30_Witness ==
    \E p \in Builds, w \in Workers :
        /\ Freed(p)
        /\ Exited(p, w)
        /\ started[p][w] # <<>>
        /\ \E r \in Reqs : req[r].pc = "cancelled" /\ req[r].snap.pool = p

\* the keys of the parsed import map, and the target of one of them
MapKeys == {importMap[i].key : i \in 1..Len(importMap)}
TargetOf(k) == importMap[CHOOSE i \in 1..Len(importMap) : importMap[i].key = k].target

\* a is a proper prefix of b
ProperPrefix(a, b) == Len(a) < Len(b) /\ IsPrefix(a, b)

\* the keys k1, k2 of the import map nest and the specifier looked up starts
\* with k2
NestedMatch(k1, k2) ==
    /\ k1 \in MapKeys /\ k2 \in MapKeys
    /\ ProperPrefix(k1, k2)
    /\ IsPrefix(k2, looked.specifier)

\* the longest key of the import map that the specifier looked up starts with
LongestMatch ==
    CHOOSE k \in MapKeys :
        /\ IsPrefix(k, looked.specifier)
        /\ \A j \in MapKeys : IsPrefix(j, looked.specifier) => Len(j) <= Len(k)

\* C22 (as claimed): with keys k1, k2 where k1 is a proper prefix of k2, a
\* specifier that starts with k2 comes back with k2 replaced by k2's target.
C22_LongerKeyRewrites ==
    \A k1, k2 \in ImportKeys :
        NestedMatch(k1, k2)
        => looked.res = SomeStr(TargetOf(k2) \o
                SubSeq(looked.specifier, Len(k2) + 1, Len(looked.specifier)))

\* C22 (amended): with keys k1, k2 where k1 is a proper prefix of k2 and a
\* specifier that starts with k2, lookup goes by the longest key k that the
\* specifier starts with (k2 or a longer one), never by k1: it returns no
\* match exactly when the specifier has an extension and is k with that
\* extension set, and else the specifier with k replaced by k's target,
\* where the "." of a target that begins with "./" is the current directory.
C22_LongestKeyDecides ==
    \A k1, k2 \in ImportKeys :
        NestedMatch(k1, k2)
        => LET k == LongestMatch
               spec == looked.specifier
               t == TargetOf(k)
               target == IF Len(t) >= 2 /\ t[1] = "." /\ t[2] = "/"
                         THEN Cwd \o Tail(t) ELSE t
               ext == PathExtension(spec) IN
           /\ Len(k) >= Len(k2)
           /\ looked.res.some
              <=> ~(ext.some /\ spec = PathWithExtension(k, ext.val))
           /\ looked.res.some
              => looked.res.val = target \o SubSeq(spec, Len(k) + 1, Len(spec))

\* C22 witness: the import map has the keys "a" and "a.", and "a.a", which
\* starts with both, was rewritten
C22_Witness ==
    /\ NestedMatch(<<"a">>, <<"a", ".">>)
    /\ looked.specifier = <<"a", ".", ".">>
    /\ looked.res.some

\* C26 (as claimed): in the parsed import map an earlier entry has a key at
\* least as long as the key of every later entry.
C26_SortedByLength ==
    \A i, j \in 1..Len(importMap) :
        i < j => Len(importMap[i].key) >= Len(importMap[j].key)

\* the specifier starts with a drive letter: a letter, a colon, a backslash
DriveLetter(s) == Len(s) >= 3 /\ s[1] = "c" /\ s[2] = ":" /\ s[3] = "\\"

\* C27: load_import hands a specifier that starts with a drive letter or
\* parses as a URL to the URL loader, and every other one to the filesystem
\* loader.
C27_LoaderChoice ==
    lastLoad.loader # "none"
    => LET s == lastLoad.specifier IN
       /\ (DriveLetter(s) \/ Url_parse_is_ok(s)) => lastLoad.loader = "url"
       /\ ~(DriveLetter(s) \/ Url_parse_is_ok(s)) => lastLoad.loader = "fs"

\* C27 witness: a specifier that starts with a drive letter went to the URL
\* loader
C27_Witness ==
    /\ DriveLetter(lastLoad.specifier)
    /\ lastLoad.loader = "url"

\* C28 (as claimed): a source that the filesystem loader read from a .ts file
\* and returned has gone through TypeScript::compile.
C28_TsTranspiled ==
    (lastLoad.loader = "fs" /\ lastLoad.status = "ok" /\ lastLoad.readExt = "ts")
    => lastLoad.source.compiled

\* the load that a step makes, if it makes one that shows
UrlLoadStep ==
    /\ lastLoad'.loader = "url"
    /\ (lastLoad' # lastLoad \/ cacheDir' # cacheDir)

\* C29: a load with caching not skipped of a URL whose cache file exists
\* issues no GET and returns the contents of that file; every other load
\* that gets as far issues a GET; after a load that succeeded the cache file
\* of the URL holds the source that was returned, and the load of the same
\* URL that follows with caching not skipped returns that source without a
\* GET.
C29_CacheRoundTrip ==
    /\ []((lastLoad.loader = "url" /\ lastLoad.status = "ok")
          => /\ Sha1Hex(lastLoad.specifier) \in DOMAIN cacheDir
             /\ cacheDir[Sha1Hex(lastLoad.specifier)] = lastLoad.source)
    /\ [][UrlLoadStep =>
            LET h == Sha1Hex(lastLoad'.specifier)
                hit == ~lastLoad'.skip /\ h \in DOMAIN cacheDir IN
            /\ hit => /\ ~lastLoad'.issued
                      /\ lastLoad'.status = "ok"
                      /\ lastLoad'.source = cacheDir[h]
                      /\ cacheDir' = cacheDir
            /\ (~hit /\ lastLoad'.status # "dir_failed") => lastLoad'.issued
            /\ (/\ lastLoad.loader = "url" /\ lastLoad.status = "ok"
                /\ lastLoad'.specifier = lastLoad.specifier
                /\ ~lastLoad'.skip)
               => /\ lastLoad'.status = "ok"
                  /\ lastLoad'.source = lastLoad.source
                  /\ ~lastLoad'.issued]_vars

\* C29 witness: a load with caching not skipped returned, without a GET, the
\* compiled source that an earlier download had left in the cache file
C29_Witness ==
    /\ lastLoad.loader = "url"
    /\ lastLoad.status = "ok"
    /\ ~lastLoad.skip
    /\ ~lastLoad.issued
    /\ lastLoad.source.compiled

\* C31: within one bundle run the module map only grows: no insert removes a
\* key or changes the module stored under a key that is present, and the
\* main entry, once set, never changes
C31_AppendOnly ==
    [][/\ \A p \in DOMAIN moduleMap.index :
            /\ p \in DOMAIN moduleMap'.index
            /\ moduleMap'.index[p] = moduleMap.index[p]
       /\ moduleMap.main.some => moduleMap'.main = moduleMap.main]_vars

\* the part of C31 that insert keeps: keys stay and the main entry stays
KeysAndMainKept ==
    [][/\ DOMAIN moduleMap.index \subseteq DOMAIN moduleMap'.index
       /\ moduleMap.main.some => moduleMap'.main = moduleMap.main]_vars

\* the requests whose send on worker (p, w) completed and that the worker has
\* not finished: it neither sent their reply nor died executing them
Outstanding(p, w) ==
    Len(sent[p][w]) - (Len(started[p][w]) - Cardinality(running[p][w]))

RECURSIVE PoolOutstanding(_, _)
PoolOutstanding(p, W) ==
    IF W = {} THEN 0
    ELSE LET w == CHOOSE x \in W : TRUE IN
         Outstanding(p, w) + PoolOutstanding(p, W \ {w})

\* C32: each worker has at most two outstanding requests, at most one that
\* it executes and at most one that waits in its channel; a pool of N
\* workers holds at most 2N of them; a further dispatch to a worker that
\* has two stays suspended in its send
C32_TwoPerWorker ==
    /\ \A p \in Builds, w \in Workers :
        /\ Cardinality(running[p][w]) <= 1
        /\ Len(chan[p][w]) <= 1
        /\ Outstanding(p, w) <= 2
        /\ wpc[p][w] # "dead"
           => Outstanding(p, w) = Cardinality(running[p][w]) + Len(chan[p][w])
    /\ \A p \in Builds : PoolOutstanding(p, Workers) <= 2 * PoolSize
    /\ \A r \in Reqs :
        (req[r].pc = "picked" /\ Outstanding(req[r].snap.pool, req[r].widx) = 2)
        => ~ENABLED Send(r)

\* C32 witness: a worker executes one request, a second one waits in its
\* channel, and a third dispatch has selected the same worker
C32_Witness ==
    \E r \in Reqs :
        /\ req[r].pc = "picked"
        /\ Outstanding(req[r].snap.pool, req[r].widx) = 2
        /\ running[req[r].snap.pool][req[r].widx] # {}
        /\ chan[req[r].snap.pool][req[r].widx] # <<>>

\* C33: the first reload that fails (its build, its config load or its
\* router swap) ends async_watch: that reload stores no pool, and from then
\* on the watcher task stays ended and starts no swap, whatever file changes
C33_WatcherEndsOnFailure ==
    /\ [](watch.failures > 0 => watch.pc = "ended" /\ ~watch.pending)
    /\ [][watch'.failures > watch.failures
          => /\ poolPub' = poolPub
             /\ sw'["watch"].pc = "idle"]_vars
    /\ [][watch.failures > 0
          => /\ poolPub' = poolPub
             /\ routerPub' = routerPub
             /\ sw'["watch"] = sw["watch"]
             /\ watch'.failures = watch.failures]_vars

\* C33 witness: a reload failed, and a later save left a project that builds
\* and whose code is not the published one
C33_Witness ==
    /\ watch.failures > 0
    /\ get_code_and_config(files, buildDir).ok
    /\ get_code_and_config(files, buildDir).code.main # poolPub.code
    /\ sw["watch"].done < MaxReloads

\* artifact a under hash h is what one successful build of a project with
\* that hash stores: the whole bundle and a whole copy of a config.yml
CompleteArtifact(a, h) ==
    /\ \E fs \in [ts : TsSrc, js : JsSrc, cfg : CfgSrc] :
        /\ calc_project_hash(fs) = h
        /\ Bundles(fs)
        /\ a.mjs = run_bundle(fs)
    /\ a.yml \in CfgSrc

\* C34: whenever build_project returns Ok, the .mjs and the .yml of the hash
\* it names are complete artifacts of one successful build, after every
\* sequence of earlier calls, failed ones included
C34_ArtifactsComplete ==
    \A io \in BuildOutcomes :
        LET b == build_project_io(files, buildDir, io) IN
        b.ok => CompleteArtifact(b.dir[b.hash], b.hash)

\* the cache entry seen records path as Ready
RecordsReady(seen, path) == path \in DOMAIN seen /\ seen[path] = "Ready"

\* C35: fast_forward never moves a module out of Ready; a Resolving module
\* becomes Ready only when it has no dependencies or each of them was
\* fast-forwarded and is Ready, and it is then recorded as Ready in
\* seen_modules; a Duplicate module becomes Ready exactly when seen_modules
\* records its path as Ready when it is visited
C35_FastForward ==
    /\ [][\A m \in DOMAIN esModules :
            esModules'[m].status \in {esModules[m].status, "Ready"}]_vars
    /\ [](\A i \in DOMAIN visits :
            LET v == visits[i]
                self == esModules[v.node] IN
            /\ v.before = "Ready" => v.after = "Ready"
            /\ (v.before = "Resolving" /\ v.after = "Ready")
               => /\ \A k \in DOMAIN v.deps : v.deps[k] = "Ready"
                  /\ \A k \in DOMAIN self.dependencies :
                        \E j \in 1..(i - 1) :
                            visits[j].node = self.dependencies[k]
                  /\ RecordsReady(seen_modules, self.path)
            /\ v.before = "Duplicate"
               => (v.after = "Ready" <=> RecordsReady(v.seen, self.path)))

\* C35 witness: a traversal made a Resolving module with dependencies Ready
\* after it had made a Duplicate module Ready on the way
C35_Witness ==
    \E i \in DOMAIN visits : \E j \in 1..(i - 1) :
        /\ visits[i].before = "Resolving" /\ visits[i].after = "Ready"
        /\ visits[i].deps # <<>>
        /\ visits[j].before = "Duplicate" /\ visits[j].after = "Ready"

====
